---- MODULE Spec2Model ----
(***************************************************************************)
(* Model of cmc_terminal.py: a Streamlit script that fetches the           *)
(* CoinMarketCap listing through a TTL cache (st.cache_data), flattens it, *)
(* filters it by a search text and shows one page of it.                   *)
(*                                                                         *)
(* Streamlit runs the whole script once per "run" of a browser session.    *)
(* The only places where a run can be suspended are inside get_flat_df:    *)
(* waiting for the cache's per-key compute lock, and waiting for the HTTP  *)
(* response.  Everything else of a run is executed in one step.            *)
(***************************************************************************)
EXTENDS Integers, Sequences, FiniteSets, TLC

VARIABLES
    apiKey,     \* API_KEY is configured (st.secrets, read once at start)
    now,        \* the clock, in seconds
    cache,      \* st.cache_data store of get_flat_df: key -> [snap, expires]
    lock,       \* st.cache_data compute lock of a key: holder session or 0
    fetches,    \* number of requests.get calls issued so far, per key
    pc,         \* per session: "idle", "run", "wait" (lock), "http" (request)
    w,          \* per session: the sidebar widgets' values
    btn,        \* per session: paging inputs of the run (buttons, jump box)
    ss,         \* per session: st.session_state (last_refresh, page_idx)
    served,     \* per session: what the last get_flat_df call returned
    out,        \* per session: how the last run ended
    resp,       \* per session: the upstream's answer to its last request
    pop,        \* history: per argument pair, the last snapshot fetched and when
    late,       \* history: per session, its last get_flat_df call began after
                \* the fetch of a snapshot for its arguments, less than TTL after
    fl,         \* flattening study: [rec, cur, row, done]
    sf,         \* search filter study: [rows, text, res, done]
    pg          \* paging study: [n, size, pages]

mainVars == <<apiKey, now, cache, lock, fetches, pc, w, btn, ss, served, out, resp, pop, late>>
vars == <<apiKey, now, cache, lock, fetches, pc, w, btn, ss, served, out, resp, pop, late, fl, sf, pg>>

Max(a, b) == IF a >= b THEN a ELSE b
Min(a, b) == IF a <= b THEN a ELSE b

(***************************************************************************)
(* Bounds of the model and constants of the program.                       *)
(***************************************************************************)
MaxTime == 120          \* the clock stops here
TickStep == 60          \* granularity of the clock
MaxFetches == 2         \* upstream requests in a behaviour
MaxRows == 61           \* paging study: most rows
TTL == 120              \* @st.cache_data(ttl=120)

Sessions == {1, 2}
Currencies == {"USD", "EUR"}            \* of ["USD","EUR","CNY"]
Limits == {10, 20}                      \* of 10..500 step 10
PageSizes == {10, 20, 30, 50}
RefreshChoices == {60, 120}             \* of the slider's 5..300 step 5
Keys == Limits \X Currencies

(***************************************************************************)
(* Upstream data.  An asset record is [top, quote]: top holds the record's *)
(* top-level fields other than "quote", quote maps a currency to its quote *)
(* object (the empty function when the record has no "quote").  Text is a  *)
(* sequence of characters so that the search can look inside it.           *)
(***************************************************************************)
Bitcoin == <<"B", "i", "t", "c", "o", "i", "n">>
Ethereum == <<"E", "t", "h", "e", "r", "e", "u", "m">>
BTC == <<"B", "T", "C">>
ETH == <<"E", "T", "H">>
Tether == <<"T", "e", "t", "h", "e", "r">>
USDT == <<"U", "S", "D", "T">>

CoinName(i) == IF i = 1 THEN Bitcoin ELSE IF i = 2 THEN Ethereum ELSE Tether
CoinSymbol(i) == IF i = 1 THEN BTC ELSE IF i = 2 THEN ETH ELSE USDT

Asset(i, cur) ==
    [top |-> [cmc_rank |-> i, name |-> CoinName(i), symbol |-> CoinSymbol(i)],
     quote |-> (cur :> [price |-> 1000 - i, market_cap |-> 5000 - i,
                        volume_24h |-> 100 + i])]

PayloadKinds == {"listing", "nosymbol", "empty", "nodata"}
Failures == {"timeout", "http_error"}

\* The JSON document r.json() returns, by kind of answer.
Payload(kind, limit, cur) ==
    CASE kind = "listing" ->
           [hasData |-> TRUE, data |-> [i \in 1..limit |-> Asset(i, cur)]]
      [] kind = "nosymbol" ->
           [hasData |-> TRUE,
            data |-> [i \in 1..limit |-> [top |-> [id |-> i], quote |-> <<>>]]]
      [] kind = "empty" -> [hasData |-> TRUE, data |-> <<>>]
      [] OTHER -> [hasData |-> FALSE, data |-> <<>>]

(***************************************************************************)
(* get_flat_df, lines 58-73: the flattening.                               *)
(***************************************************************************)
ColName(convert, k) == convert \o "_" \o k

\* A row from the top-level fields and one quote object: the top-level
\* fields first, then the quote's fields as prefix_k (assigned second, so
\* they win over a top-level field of the same name).
RowOf(top, prefix, quote) ==
    LET isq(n) == \E k \in DOMAIN quote : ColName(prefix, k) = n
        qkey(n) == CHOOSE k \in DOMAIN quote : ColName(prefix, k) = n
    IN [n \in DOMAIN top \cup {ColName(prefix, k) : k \in DOMAIN quote} |->
            IF isq(n) THEN quote[qkey(n)] ELSE top[n]]

\* Faulty variant: the record's quote is taken whatever its currency (the
\* USD one when the record has several).
FlattenFirstQuote(c, convert) ==
    RowOf(c.top, convert,
          IF DOMAIN c.quote = {} THEN <<>>
          ELSE IF "USD" \in DOMAIN c.quote THEN c.quote["USD"]
          ELSE c.quote[CHOOSE cc \in DOMAIN c.quote : TRUE])

\* c.get("quote", {}).get(convert, {})
Flatten(c, convert) ==
    RowOf(c.top, convert,
          IF convert \in DOMAIN c.quote THEN c.quote[convert] ELSE <<>>)

\* payload.get("data", []) flattened; pd.json_normalize gives the frame
\* whose columns are the union of the rows' fields.
FlatDf(payload, convert) ==
    LET data == IF payload.hasData THEN payload.data ELSE <<>>
    IN [rows |-> [i \in 1..Len(data) |-> Flatten(data[i], convert)],
        cols |-> UNION {DOMAIN Flatten(data[i], convert) : i \in 1..Len(data)}]

(***************************************************************************)
(* The search filter, lines 174-178.  Series.str.contains(pat, case=False, *)
(* na=False) compiles pat as a regular expression (regex=True is the       *)
(* default) with re.IGNORECASE and keeps the cells where re.search finds a *)
(* match.  Of the regular expression syntax the model has the literal      *)
(* characters, "." (any character) and "(" (which, never closed in these   *)
(* texts, makes re.compile raise re.error).                                *)
(***************************************************************************)
Lower(ch) ==
    CASE ch = "B" -> "b" [] ch = "C" -> "c" [] ch = "D" -> "d"
      [] ch = "E" -> "e" [] ch = "H" -> "h" [] ch = "S" -> "s"
      [] ch = "T" -> "t" [] ch = "U" -> "u" [] OTHER -> ch

\* The text contains s as a substring, case-insensitively.
ContainsNoCase(text, s) ==
    \E off \in 0..(Len(text) - Len(s)) :
        \A i \in 1..Len(s) : Lower(text[off + i]) = Lower(s[i])

PatternValid(pat) == \A i \in 1..Len(pat) : pat[i] # "("

\* One pattern character against one character of the text.
AtomMatches(a, ch) == a = "." \/ Lower(a) = Lower(ch)

\* re.search(pat, text, re.IGNORECASE) finds a match.
RegexSearch(pat, text) ==
    \E off \in 0..(Len(text) - Len(pat)) :
        \A i \in 1..Len(pat) : AtomMatches(pat[i], text[off + i])

\* A cell of the frame: a row without the column holds NaN, which
\* na=False turns into "no match".
CellMatches(row, col, pat) == col \in DOMAIN row /\ RegexSearch(pat, row[col])

\* mask = name.str.contains(..) | symbol.str.contains(..)
SearchMask(row, pat) ==
    CellMatches(row, "name", pat) \/ CellMatches(row, "symbol", pat)

\* Lines 175-178: [ok, rows]; ok is FALSE when the statement raises
\* (KeyError for a missing name or symbol column, re.error for the pattern).
SearchFilter(df, search_input) ==
    IF search_input = <<>> THEN [ok |-> TRUE, rows |-> df.rows]
    ELSE IF ~({"name", "symbol"} \subseteq df.cols) \/ ~PatternValid(search_input)
    THEN [ok |-> FALSE, rows |-> <<>>]
    ELSE LET Keep(r) == SearchMask(r, search_input)
         IN [ok |-> TRUE, rows |-> SelectSeq(df.rows, Keep)]

(***************************************************************************)
(* Paging, lines 189-212.                                                  *)
(***************************************************************************)
CeilDiv(a, b) == (a + b - 1) \div b

\* Faulty variant: the page count rounds down.
TotalPagesFloor(total_rows, page_size) == Max(1, total_rows \div page_size)

\* total_pages = max(1, math.ceil(total_rows / page_size))
TotalPages(total_rows, page_size) == Max(1, CeilDiv(total_rows, page_size))

\* filtered_df.iloc[start:start+page_size] with start = page_idx * page_size;
\* a Python slice stops at the end of the sequence.
PageSlice(rows, page_idx, page_size) ==
    LET start == page_idx * page_size
    IN SubSeq(rows, start + 1, Min(start + page_size, Len(rows)))

\* Faulty variant: the jump box's 1-based value is stored as the index.
JumpIndexOneBased(pn) == pn

\* st.session_state.page_idx = pn - 1
JumpIndex(pn) == pn - 1

\* st.number_input(min_value=1, max_value=total_pages, value=page_idx+1)
\* raises StreamlitAPIException when value is outside [min_value, max_value].
NumberInputOk(value, min_value, max_value) ==
    min_value <= value /\ value <= max_value

\* Lines 197-206 on the paging inputs b = [prev, next, jump] (jump = 0: the
\* box was not edited; an edit is a value the box accepts, 1..total_pages).
\* [ok, idx]: ok is FALSE when number_input raises; idx is page_idx as the
\* block leaves it in session state.
Paging(total_pages, page_idx, b) ==
    LET i1 == IF b.prev THEN Max(0, page_idx - 1) ELSE page_idx
        i2 == IF b.next THEN Min(total_pages - 1, i1 + 1) ELSE i1
        pn == IF b.jump \in 1..total_pages THEN b.jump ELSE i2 + 1
    IN IF ~NumberInputOk(i2 + 1, 1, total_pages) THEN [ok |-> FALSE, idx |-> i2]
       ELSE [ok |-> TRUE, idx |-> IF pn - 1 # i2 THEN JumpIndex(pn) ELSE i2]

(***************************************************************************)
(* The rest of a run once get_flat_df has returned df: lines 126-212.      *)
(* Sorting (lines 180-187) permutes the filtered rows and changes neither  *)
(* their number nor the paging state; the styling after the slice reads    *)
(* the page only.  Neither is modelled.                                    *)
(***************************************************************************)
MappingKeys(currency) ==
    {"cmc_rank", "name", "symbol"} \cup
    {ColName(currency, k) : k \in {"price", "percent_change_1h", "percent_change_24h",
                                   "percent_change_7d", "percent_change_30d",
                                   "percent_change_60d", "percent_change_90d",
                                   "market_cap", "volume_24h"}}

\* Lines 129-139: df["symbol"] raises KeyError without the column, and
\* btc_row.get(col) is None without the column, so .iloc raises.
MetricsOk(df, currency) ==
    /\ "symbol" \in df.cols
    /\ \A i \in 1..Len(df.rows) :
         ("symbol" \in DOMAIN df.rows[i] /\ df.rows[i]["symbol"] \in {BTC, ETH})
             => ColName(currency, "market_cap") \in df.cols

\* Lines 156-169, with no extra column ticked (the checkboxes' default).
ShowCols(df, currency) == MappingKeys(currency) \cap df.cols

\* [out, idx]: how the run ends and page_idx as the run leaves it.
View(df, currency, search_input, page_size, page_idx, b) ==
    IF ~MetricsOk(df, currency) THEN [out |-> "exception", idx |-> page_idx]
    ELSE IF ShowCols(df, currency) = {} THEN [out |-> "warning", idx |-> page_idx]
    ELSE LET f == SearchFilter(df, search_input)
             p == Paging(TotalPages(Len(f.rows), page_size), page_idx, b)
         IN IF ~f.ok THEN [out |-> "exception", idx |-> page_idx]
            ELSE IF ~p.ok THEN [out |-> "exception", idx |-> p.idx]
            ELSE [out |-> "table", idx |-> p.idx]

(***************************************************************************)
(* The cache of get_flat_df.  st.cache_data keeps, per argument tuple, the *)
(* value and its expiry (a TTLCache: an entry is served while the clock is *)
(* below write time + ttl), and computes a missing value under a per-key   *)
(* lock, reading the cache again once it holds the lock.                   *)
(***************************************************************************)
NoTime == 0 - 1
NoSnap == [key |-> <<0, "">>, ver |-> 0, kind |-> "none"]
NoEntry == [snap |-> NoSnap, expires |-> 0]

\* Faulty variant: the currency is not part of the cache key.
CacheKeyLimitOnly(limit, convert) == <<limit, "USD">>

\* st.cache_data keys an entry by the call's arguments.
CacheKey(limit, convert) == <<limit, convert>>

\* The entry is served at time t.
Fresh(entry, t) == entry # NoEntry /\ t < entry.expires

RECURSIVE SumOver(_, _)
SumOver(f, S) ==
    IF S = {} THEN 0
    ELSE LET x == CHOOSE x \in S : TRUE IN f[x] + SumOver(f, S \ {x})

TotalFetches == SumOver(fetches, Keys)

Args(s) == <<w[s].limit, w[s].currency>>
KeyOf(s) == CacheKey(w[s].limit, w[s].currency)
DfOf(snap) ==
    CHOOSE df \in {FlatDf(payload, snap.key[2]) :
                      payload \in {Payload(snap.kind, snap.key[1], snap.key[2])}} : TRUE

\* Lines 94-111.  [last_refresh, rerun]; st.rerun() starts the script again
\* with the button clicks gone, and the second pass finds elapsed = 0.
AutoRefresh(s) ==
    IF ~w[s].auto THEN [last_refresh |-> ss[s].last_refresh, rerun |-> FALSE]
    ELSE LET last == IF ss[s].last_refresh = NoTime THEN now ELSE ss[s].last_refresh
             elapsed == now - last
         IN IF elapsed >= w[s].interval THEN [last_refresh |-> now, rerun |-> TRUE]
            ELSE [last_refresh |-> last, rerun |-> FALSE]

NoClicks == [prev |-> FALSE, next |-> FALSE, jump |-> 0]

(***************************************************************************)
(* The runs of the sessions.                                               *)
(***************************************************************************)
studyVars == <<fl, sf, pg>>

\* The run of s goes on with the value get_flat_df returned: lines 126-212.
EndRun(s, snap, state, b) ==
    \E df \in {DfOf(snap)} :
    \E v \in {View(df, w[s].currency, w[s].search, w[s].page_size, state.page_idx, b)} :
       /\ served' = [served EXCEPT ![s] = snap]
       /\ out' = [out EXCEPT ![s] = v.out]
       /\ ss' = [ss EXCEPT ![s] = [state EXCEPT !.page_idx = v.idx]]
       /\ btn' = [btn EXCEPT ![s] = NoClicks]
       /\ pc' = [pc EXCEPT ![s] = "idle"]

\* get_flat_df raised: lines 122-124, st.error and st.stop.
FailRun(s, state) ==
    /\ served' = [served EXCEPT ![s] = NoSnap]
    /\ out' = [out EXCEPT ![s] = "error"]
    /\ ss' = [ss EXCEPT ![s] = state]
    /\ btn' = [btn EXCEPT ![s] = NoClicks]
    /\ pc' = [pc EXCEPT ![s] = "idle"]

\* Faulty variant: the value is computed without the compute lock.
NoLock(k) == FALSE

\* Another session holds the compute lock of the key.
LockHeld(k) == lock[k] # 0

\* Faulty variant: fetch_cmc does not look at API_KEY.
ConfigNeverMissing == FALSE

\* Line 47: API_KEY is None.
ConfigMissing == ~apiKey

\* Line 121: the cached call, from its read of the cache up to the point
\* where it returns, raises, or has to wait (for the lock, or for the
\* answer to the request fetch_cmc sends at line 51).
Call(s, state, b) ==
    LET k == KeyOf(s)
    IN IF Fresh(cache[k], now)
       THEN /\ EndRun(s, cache[k].snap, state, b)
            /\ UNCHANGED <<cache, lock, fetches, resp>>
       ELSE IF LockHeld(k)
       THEN /\ pc' = [pc EXCEPT ![s] = "wait"]
            /\ ss' = [ss EXCEPT ![s] = state]
            /\ btn' = [btn EXCEPT ![s] = b]
            /\ UNCHANGED <<cache, lock, fetches, resp, served, out>>
       ELSE IF ConfigMissing
       THEN /\ FailRun(s, state)
            /\ resp' = [resp EXCEPT ![s] = "config"]
            /\ UNCHANGED <<cache, lock, fetches>>
       ELSE /\ TotalFetches < MaxFetches
            /\ fetches' = [fetches EXCEPT ![Args(s)] = @ + 1]
            /\ lock' = [lock EXCEPT ![k] = s]
            /\ pc' = [pc EXCEPT ![s] = "http"]
            /\ ss' = [ss EXCEPT ![s] = state]
            /\ btn' = [btn EXCEPT ![s] = b]
            /\ UNCHANGED <<cache, resp, served, out>>

\* The browser of s starts a run with the widgets set to ws and the paging
\* inputs b (the first load of the page is such a run).
UserRerun(s, ws, b) ==
    /\ pc[s] = "idle"
    /\ w' = [w EXCEPT ![s] = ws]
    /\ btn' = [btn EXCEPT ![s] = b]
    /\ pc' = [pc EXCEPT ![s] = "run"]
    /\ UNCHANGED <<apiKey, now, cache, lock, fetches, ss, served, out, resp, pop, late, studyVars>>

\* The script runs from its first line into get_flat_df.
Script(s) ==
    /\ pc[s] = "run"
    /\ LET a == AutoRefresh(s)
           b == IF a.rerun THEN [btn[s] EXCEPT !.prev = FALSE, !.next = FALSE] ELSE btn[s]
       IN Call(s, [ss[s] EXCEPT !.last_refresh = a.last_refresh], b)
    /\ late' = [late EXCEPT ![s] =
                    /\ pop[Args(s)].at # NoTime
                    /\ pop[Args(s)].at < now
                    /\ now < pop[Args(s)].at + TTL]
    /\ UNCHANGED <<apiKey, now, w, pop, studyVars>>

\* The compute lock of the key is free: s takes it and reads the cache again.
Acquire(s) ==
    /\ pc[s] = "wait"
    /\ lock[KeyOf(s)] = 0
    /\ Call(s, ss[s], btn[s])
    /\ UNCHANGED <<apiKey, now, w, pop, late, studyVars>>

\* Faulty variant: a failed request leaves an empty snapshot in the cache.
StoreOnFailureToo(s, r) ==
    [cache EXCEPT ![KeyOf(s)] =
        [snap |-> [key |-> Args(s), ver |-> fetches[Args(s)],
                   kind |-> IF r \in Failures THEN "empty" ELSE r],
         expires |-> now + TTL]]

\* The cache after the request of s was answered by r: written only when
\* get_flat_df returns.
Store(s, r) ==
    IF r \in Failures THEN cache
    ELSE [cache EXCEPT ![KeyOf(s)] =
            [snap |-> [key |-> Args(s), ver |-> fetches[Args(s)], kind |-> r],
             expires |-> now + TTL]]

\* The upstream answers the request of s: a failure (requests.get times
\* out, raise_for_status raises) or a document of kind r.
Respond(s, r) ==
    /\ pc[s] = "http"
    /\ resp' = [resp EXCEPT ![s] = r]
    /\ lock' = [lock EXCEPT ![KeyOf(s)] = 0]
    /\ cache' = Store(s, r)
    /\ IF r \in Failures THEN FailRun(s, ss[s])
       ELSE EndRun(s, [key |-> Args(s), ver |-> fetches[Args(s)], kind |-> r],
                   ss[s], btn[s])
    /\ pop' = IF r \in Failures THEN pop
              ELSE [pop EXCEPT ![Args(s)] =
                      [snap |-> [key |-> Args(s), ver |-> fetches[Args(s)], kind |-> r],
                       at |-> now]]
    /\ UNCHANGED <<apiKey, now, fetches, w, late, studyVars>>

Tick ==
    /\ now + TickStep <= MaxTime
    /\ now' = now + TickStep
    /\ UNCHANGED <<apiKey, cache, lock, fetches, pc, w, btn, ss, served, out, resp, pop,
                   late, studyVars>>

(***************************************************************************)
(* The inputs of the sessions.                                             *)
(***************************************************************************)
Bt == <<"b", "t">>
Dot == <<".">>
Paren == <<"(">>
Zz == <<"z", "z">>

Widgets(limits, currencies, sizes, texts, autos, intervals) ==
    [limit : limits, currency : currencies, page_size : sizes, search : texts,
     auto : autos, interval : intervals]

Clicks(jumps) == [prev : BOOLEAN, next : BOOLEAN, jump : jumps]

\* Before the first run of a session its widgets have no value; a run
\* reads the values UserRerun gives them, never this record.
NoWidgets ==
    [limit |-> 10, currency |-> "USD", page_size |-> 10, search |-> <<>>,
     auto |-> TRUE, interval |-> 60]

StudyIdle ==
    /\ fl = [rec |-> [top |-> <<>>, quote |-> <<>>], cur |-> "USD", row |-> <<>>, done |-> FALSE]
    /\ sf = [rows |-> <<>>, text |-> <<>>, res |-> [ok |-> TRUE, rows |-> <<>>], done |-> FALSE]
    /\ pg = [n |-> 0, size |-> 10, pages |-> <<>>]

MainIdle ==
    /\ now = 0
    /\ cache = [k \in Keys |-> NoEntry]
    /\ lock = [k \in Keys |-> 0]
    /\ fetches = [k \in Keys |-> 0]
    /\ pc = [s \in Sessions |-> "idle"]
    /\ w = [s \in Sessions |-> NoWidgets]
    /\ btn = [s \in Sessions |-> NoClicks]
    /\ ss = [s \in Sessions |-> [last_refresh |-> NoTime, page_idx |-> 0]]
    /\ served = [s \in Sessions |-> NoSnap]
    /\ out = [s \in Sessions |-> "none"]
    /\ resp = [s \in Sessions |-> "none"]
    /\ pop = [k \in Keys |-> [snap |-> NoSnap, at |-> NoTime]]
    /\ late = [s \in Sessions |-> FALSE]

Init == apiKey \in BOOLEAN /\ MainIdle /\ StudyIdle

\* One session and its paging: two limits, two page sizes, a search text
\* and the paging controls.
Next ==
    \/ \E ws \in Widgets(Limits, {"USD"}, {10, 20}, {<<>>, Zz}, {FALSE}, {60}) :
         \E b \in Clicks(0..2) : UserRerun(1, ws, b)
    \/ Script(1)
    \/ \E r \in {"timeout", "listing"} : Respond(1, r)
    \/ Tick

Spec == Init /\ [][Next]_vars

\* One session and every kind of answer of the upstream.
NextOutcome ==
    \/ \E ws \in Widgets({10}, {"USD"}, {10}, {<<>>, Bt, Paren}, {FALSE}, {60}) :
         UserRerun(1, ws, NoClicks)
    \/ Script(1)
    \/ \E r \in Failures \cup PayloadKinds : Respond(1, r)
    \/ Tick

SpecOutcome == Init /\ [][NextOutcome]_vars

\* Two sessions calling get_flat_df with every (limit, currency) pair.
NextCache ==
    \/ \E s \in Sessions :
         \E ws \in Widgets({10}, Currencies, {10}, {<<>>}, {FALSE}, {60}) :
            UserRerun(s, ws, NoClicks)
    \/ \E s \in Sessions : Script(s)
    \/ \E s \in Sessions : Acquire(s)
    \/ \E s \in Sessions : \E r \in Failures \cup {"listing"} : Respond(s, r)
    \/ Tick

SpecCache == Init /\ [][NextCache]_vars

\* One session with the auto-refresh box ticked or not.
NextRefresh ==
    \/ \E ws \in Widgets({10}, {"USD"}, {10}, {<<>>}, BOOLEAN, RefreshChoices) :
         \E b \in Clicks({0}) : UserRerun(1, ws, b)
    \/ Script(1)
    \/ \E r \in Failures \cup {"listing"} : Respond(1, r)
    \/ Tick

SpecRefresh == Init /\ [][NextRefresh]_vars

(***************************************************************************)
(* Studies of the pure parts on inputs of their own.                       *)
(***************************************************************************)
\* All functions from a subset of D to V.
PartialFns(D, V) == UNION {[X -> V] : X \in SUBSET D}

StudyRecords ==
    [top : PartialFns({"symbol", "name"}, {"BTC", "Bitcoin"}),
     quote : PartialFns(Currencies, PartialFns({"price", "market_cap"}, {50000, 7}))]

InitFlatten ==
    /\ apiKey = TRUE /\ MainIdle
    /\ fl \in [rec : StudyRecords, cur : Currencies, row : {<<>>}, done : {FALSE}]
    /\ sf = [rows |-> <<>>, text |-> <<>>, res |-> [ok |-> TRUE, rows |-> <<>>], done |-> FALSE]
    /\ pg = [n |-> 0, size |-> 10, pages |-> <<>>]

\* The body of the loop of get_flat_df on one record.
DoFlatten ==
    /\ ~fl.done
    /\ fl' = [fl EXCEPT !.row = Flatten(fl.rec, fl.cur), !.done = TRUE]
    /\ UNCHANGED <<mainVars, sf, pg>>

SpecFlatten == InitFlatten /\ [][DoFlatten]_vars

\* Rows of a frame: with or without a name, with or without a symbol.
StudyRows ==
    {[name |-> Bitcoin, symbol |-> BTC], [name |-> Ethereum, symbol |-> ETH],
     [name |-> Tether], [symbol |-> BTC]}

StudyTexts ==
    {<<>>} \cup {<<a>> : a \in {"b", "T", ".", "("}}
           \cup {<<a, b>> : a \in {"b", "e", "."}, b \in {"t", "T", "."}}

SeqsUpTo(S, n) == UNION {[1..m -> S] : m \in 0..n}

InitFilter ==
    /\ apiKey = TRUE /\ MainIdle
    /\ fl = [rec |-> [top |-> <<>>, quote |-> <<>>], cur |-> "USD", row |-> <<>>, done |-> FALSE]
    /\ sf \in [rows : SeqsUpTo(StudyRows, 2), text : StudyTexts,
               res : {[ok |-> TRUE, rows |-> <<>>]}, done : {FALSE}]
    /\ pg = [n |-> 0, size |-> 10, pages |-> <<>>]

\* Lines 175-178 on a frame that has the name and symbol columns.
DoFilter ==
    /\ ~sf.done
    /\ sf' = [sf EXCEPT
                !.res = SearchFilter([rows |-> sf.rows, cols |-> {"name", "symbol"}], sf.text),
                !.done = TRUE]
    /\ UNCHANGED <<mainVars, fl, pg>>

SpecFilter == InitFilter /\ [][DoFilter]_vars

\* The filtered rows of the paging study are 1..n.
RowIds(n) == [i \in 1..n |-> i]

InitPages ==
    /\ apiKey = TRUE /\ MainIdle
    /\ fl = [rec |-> [top |-> <<>>, quote |-> <<>>], cur |-> "USD", row |-> <<>>, done |-> FALSE]
    /\ sf = [rows |-> <<>>, text |-> <<>>, res |-> [ok |-> TRUE, rows |-> <<>>], done |-> FALSE]
    /\ pg \in [n : 0..MaxRows, size : PageSizes \cup {2}, pages : {<<>>}]

\* Lines 210-212 for the next page index, up to total_pages - 1.
TakePage ==
    /\ Len(pg.pages) < TotalPages(pg.n, pg.size)
    /\ pg' = [pg EXCEPT !.pages = Append(@, PageSlice(RowIds(pg.n), Len(pg.pages), pg.size))]
    /\ UNCHANGED <<mainVars, fl, sf>>

SpecPages == InitPages /\ [][TakePage]_vars

(***************************************************************************)
(* Properties.                                                             *)
(***************************************************************************)
\* A snapshot for the arguments k was fetched less than TTL ago.
WithinTTL(k) == pop[k].at # NoTime /\ now < pop[k].at + TTL

InFlight(k) == {s \in Sessions : pc[s] = "http" /\ Args(s) = k}

\* C1: a get_flat_df call that begins less than TTL after the fetch that
\* populated the cache for its (limit, currency) returns at once the
\* snapshot of that fetch and sends no request; and whatever snapshot a
\* call returns was fetched with exactly the call's (limit, currency).
C1_CacheHit ==
    [][\A s \in Sessions :
         /\ (pc[s] = "run" /\ pc'[s] # "run" /\ WithinTTL(Args(s)))
               => /\ pc'[s] = "idle"
                  /\ served'[s] = pop[Args(s)].snap
                  /\ fetches' = fetches
         /\ (served'[s] # served[s] /\ served'[s] # NoSnap)
               => served'[s].key = <<w'[s].limit, w'[s].currency>>]_vars

\* Two sessions hold the same snapshot, fetched once; one of them asked
\* for it later than the fetch, within the TTL.
C1_Witness ==
    \E s \in Sessions : \E t \in Sessions \ {s} :
        /\ pc[s] = "idle" /\ late[s]
        /\ served[s] # NoSnap
        /\ served[s] = pop[Args(s)].snap
        /\ served[t] = served[s]
        /\ fetches[Args(s)] = 1

NoTwoInFlight == \A k \in Keys : Cardinality(InFlight(k)) <= 1

Servable(k) == Fresh(cache[CacheKey(k[1], k[2])], now)

\* The step in which the request of s is answered by a failure.
FailedFetch(s) == pc[s] = "http" /\ pc'[s] = "idle" /\ resp'[s] \in Failures

C4_NoRequestWithoutKey ==
    ~apiKey =>
        /\ \A k \in Keys : fetches[k] = 0
        /\ \A s \in Sessions :
              /\ pc[s] # "http"
              /\ (pc[s] = "idle" /\ out[s] # "none")
                    => (out[s] = "error" /\ resp[s] = "config")

C4_Witness ==
    ~apiKey /\ \E s \in Sessions : pc[s] = "idle" /\ out[s] = "error" /\ resp[s] = "config"

\* C5 as stated: a run ends in a table, an error message or a warning,
\* never in an exception; an answer with no data array, no rows or no
\* usable column ends in the warning.
C5_Claim ==
    \A s \in Sessions :
        (pc[s] = "idle" /\ out[s] # "none")
            => /\ out[s] \in {"table", "error", "warning"}
               /\ served[s].kind \in {"nodata", "empty", "nosymbol"} => out[s] = "warning"

\* The rows the last run of s paged.
FilteredRows(s) == SearchFilter(DfOf(served[s]), w[s].search).rows

\* C6: when a run reaches the slice (it ends in a table), page_idx is in
\* [0, ceil(total_rows / page_size) - 1], and 0 when there are no rows.
C6_PageIndexInRange ==
    \A s \in Sessions :
        (pc[s] = "idle" /\ out[s] = "table")
            => /\ ss[s].page_idx >= 0
               /\ ss[s].page_idx = 0
                    \/ ss[s].page_idx * w[s].page_size < Len(FilteredRows(s))

\* The last of two pages is shown.
C6_Witness ==
    \E s \in Sessions :
        /\ pc[s] = "idle" /\ out[s] = "table"
        /\ ss[s].page_idx = 1
        /\ Len(FilteredRows(s)) = 20 /\ w[s].page_size = 10

RECURSIVE Concat(_)
Concat(pages) ==
    IF pages = <<>> THEN <<>>
    ELSE Concat(SubSeq(pages, 1, Len(pages) - 1)) \o pages[Len(pages)]

RECURSIVE SumLen(_)
SumLen(pages) ==
    IF pages = <<>> THEN 0
    ELSE SumLen(SubSeq(pages, 1, Len(pages) - 1)) + Len(pages[Len(pages)])

\* The least p >= 1 with p * size >= n.
PagesNeeded(n, size) ==
    CHOOSE p \in 1..(n + 1) : p * size >= n /\ (p = 1 \/ (p - 1) * size < n)

\* C7: the pages 0..total_pages-1 are the filtered rows cut in order, with
\* no overlap and no gap: the pages taken so far are a prefix of the rows,
\* all total_pages of them are the rows, their lengths sum to total_rows,
\* and 3 rows in pages of 2 are [1,2] and [3].
C7_PagesPartition ==
    /\ TotalPages(pg.n, pg.size) = PagesNeeded(pg.n, pg.size)
    /\ Concat(pg.pages) = SubSeq(RowIds(pg.n), 1, Len(Concat(pg.pages)))
    /\ Len(pg.pages) = TotalPages(pg.n, pg.size)
          => /\ Concat(pg.pages) = RowIds(pg.n)
             /\ SumLen(pg.pages) = pg.n
    /\ (pg.n = 3 /\ pg.size = 2 /\ Len(pg.pages) = 2)
          => pg.pages = <<<<1, 2>>, <<3>>>>

C7_Witness ==
    /\ pg.n = 45 /\ pg.size = 20
    /\ pg.pages = <<[i \in 1..20 |-> i], [i \in 1..20 |-> 20 + i], [i \in 1..5 |-> 40 + i]>>

\* C8 as stated, with the deadline made explicit: while auto-refresh is
\* on, a session is never left idle for longer than the refresh interval
\* after last_refresh.
C8_Claim ==
    \A s \in Sessions :
        (pc[s] = "idle" /\ out[s] # "none" /\ w[s].auto)
            => now - ss[s].last_refresh <= w[s].interval

\* The fields of the requested currency's quote, by their column names.
QuoteCols(rec, cur) ==
    IF cur \in DOMAIN rec.quote
    THEN {ColName(cur, k) : k \in DOMAIN rec.quote[cur]}
    ELSE {}

\* C9: the flattened row holds every top-level field unchanged, every key
\* k of the quote for the requested currency C as C_k with its value, and
\* nothing else (so nothing of another currency's quote);
\* {symbol: BTC, quote: {USD: {price: 50000}}} gives
\* {symbol: BTC, USD_price: 50000}.  The records are those of the listing
\* schema, where no top-level field is named like a quote column.
C9_FlattenedRow ==
    fl.done =>
        /\ \A n \in DOMAIN fl.rec.top : n \in DOMAIN fl.row /\ fl.row[n] = fl.rec.top[n]
        /\ fl.cur \in DOMAIN fl.rec.quote =>
              \A k \in DOMAIN fl.rec.quote[fl.cur] :
                  /\ ColName(fl.cur, k) \in DOMAIN fl.row
                  /\ fl.row[ColName(fl.cur, k)] = fl.rec.quote[fl.cur][k]
        /\ DOMAIN fl.row = DOMAIN fl.rec.top \cup QuoteCols(fl.rec, fl.cur)
        /\ (fl.rec = [top |-> [symbol |-> "BTC"], quote |-> [USD |-> [price |-> 50000]]]
                /\ fl.cur = "USD")
              => fl.row = [symbol |-> "BTC", USD_price |-> 50000]

\* A record with a USD and a EUR quote flattened for USD.
C9_Witness ==
    /\ fl.done /\ fl.cur = "USD"
    /\ fl.rec = [top |-> [symbol |-> "BTC"],
                 quote |-> [USD |-> [price |-> 50000], EUR |-> [price |-> 7]]]
    /\ fl.row = [symbol |-> "BTC", USD_price |-> 50000]

\* The row's name or symbol contains the text, case-insensitively.
NameOrSymbolContains(row, text) ==
    \/ "name" \in DOMAIN row /\ ContainsNoCase(row["name"], text)
    \/ "symbol" \in DOMAIN row /\ ContainsNoCase(row["symbol"], text)

\* C10 as stated: the filter with an empty text returns the rows
\* unchanged, and with a text s it returns exactly the rows whose name or
\* symbol contains s case-insensitively, in order.
C10_Claim ==
    sf.done =>
        /\ sf.res.ok
        /\ sf.text = <<>> => sf.res.rows = sf.rows
        /\ LET Keep(r) == NameOrSymbolContains(r, sf.text)
           IN sf.res.rows = SelectSeq(sf.rows, Keep)

====
